---- MODULE Spec2Model ----
(***************************************************************************)
(* A model of the AI edit service: the response normalizers of llm.js      *)
(* (parseEditsFromLLM, parseKitPatchFromLLM and their helpers), the        *)
(* in-memory request store (addRequest / getRequests) and the POST /edits  *)
(* handler that ties them together.                                        *)
(*                                                                         *)
(* JavaScript values are encoded as one-field records whose field name is  *)
(* the value's type, so that values of different types can be compared:    *)
(*   undefined, null, strings (sequences of characters), numbers,          *)
(*   booleans, arrays (sequences of values) and plain objects (functions   *)
(*   from the keys that are present to values).                            *)
(***************************************************************************)
EXTENDS Integers, Sequences, FiniteSets, TLC

VARIABLES
    call,       \* the normalizer call under examination: its name and arguments
    ret,        \* its outcome: Pending, [value |-> v] or [throw |-> message]
    secret,     \* whether process.env.SERVICE_SECRET is set (auth middleware mounted)
    requests,   \* store: the `requests` array, as references into heap, newest first
    heap,       \* every AuditRecord object ever created, indexed by reference
    inflight,   \* POST /edits handlers suspended at `await callGemini(prompt)`
    sent,       \* the response payload sent back for each request
    calls,      \* how many times callGemini was invoked for each request
    arrived,    \* how many requests have reached the server
    view,       \* the array (of record references) getRequests() last returned
    results     \* each resumed handler: its branch, its body and what `await callGemini(prompt)` gave it

pureVars == <<call, ret>>
serverVars == <<secret, requests, heap, inflight, sent, calls, arrived, view, results>>
vars == <<call, ret, secret, requests, heap, inflight, sent, calls, arrived, view, results>>

---------------------------------------------------------------------------
(* JavaScript values *)

Undefined == [undef |-> TRUE]
Null == [null |-> TRUE]
Str(s) == [str |-> s]
Num(n) == [num |-> n]
Bool(b) == [bool |-> b]
Arr(xs) == [arr |-> xs]
Obj(f) == [obj |-> f]

EmptyFn == [k \in {} |-> Null]

IsStr(v) == DOMAIN v = {"str"}
IsNum(v) == DOMAIN v = {"num"}
IsBool(v) == DOMAIN v = {"bool"}
IsArr(v) == DOMAIN v = {"arr"}
IsObj(v) == DOMAIN v = {"obj"}

\* typeof v === 'object' (true of null, arrays and plain objects)
TypeofObject(v) == v = Null \/ IsArr(v) \/ IsObj(v)

\* v != null
NotNullish(v) == v # Null /\ v # Undefined

\* the truthiness `item && ...` and `c && ...` test
Truthy(v) ==
    /\ NotNullish(v)
    /\ v # Str(<<>>)
    /\ v # Num(0)
    /\ v # Bool(FALSE)

\* a === b: primitives by value, objects and arrays by reference (two values
\* that come from different JSON documents are never the same object)
StrictEq(a, b) == a = b /\ ~IsArr(a) /\ ~IsObj(a)

\* v.k for a non-nullish v
Get(v, k) == IF IsObj(v) /\ k \in DOMAIN v.obj THEN v.obj[k] ELSE Undefined

\* 'k' in o
HasKey(o, k) == k \in DOMAIN o.obj

\* o.k = v
Put(o, k, v) == Obj((k :> v) @@ o.obj)

\* a ?? b
Coalesce(a, b) == IF NotNullish(a) THEN a ELSE b

Min(S) == CHOOSE x \in S : \A y \in S : x <= y

\* arr.find(P): the first element, in listed order, that satisfies P
Find(xs, P(_)) ==
    LET hits == {i \in 1..Len(xs) : P(xs[i])}
    IN IF hits = {} THEN Undefined ELSE xs[Min(hits)]

\* arr.map(F)
Map(xs, F(_)) == [i \in 1..Len(xs) |-> F(xs[i])]

---------------------------------------------------------------------------
(* Strings *)

IsWsChar(c) == c = " "

\* s.trim(), on a sequence whose whitespace elements W recognises
TrimLeft(s, W(_)) ==
    LET RECURSIVE L(_)
        L(t) == IF t # <<>> /\ W(Head(t)) THEN L(Tail(t)) ELSE t
    IN L(s)

TrimRight(s, W(_)) ==
    LET RECURSIVE R(_)
        R(t) == IF t # <<>> /\ W(t[Len(t)]) THEN R(SubSeq(t, 1, Len(t) - 1)) ELSE t
    IN R(s)

Trim(s, W(_)) == TrimRight(TrimLeft(s, W), W)

Digit(n) == <<"0", "1", "2", "3", "4", "5", "6", "7", "8", "9">>[n + 1]

RECURSIVE Digits(_)
Digits(n) == IF n < 10 THEN <<Digit(n)>> ELSE Digits(n \div 10) \o <<Digit(n % 10)>>

ObjectObject ==
    <<"[", "o", "b", "j", "e", "c", "t", " ", "O", "b", "j", "e", "c", "t", "]">>

\* String(v), as characters
RECURSIVE Chars(_)
Chars(v) ==
    LET RECURSIVE Join(_, _)
        \* Array.prototype.join(','): null and undefined elements print as ''
        Join(xs, i) ==
            IF i > Len(xs) THEN <<>>
            ELSE (IF i > 1 THEN <<",">> ELSE <<>>)
                 \o (IF NotNullish(xs[i]) THEN Chars(xs[i]) ELSE <<>>)
                 \o Join(xs, i + 1)
    IN CASE IsStr(v) -> v.str
         [] IsNum(v) -> IF v.num < 0 THEN <<"-">> \o Digits(-v.num) ELSE Digits(v.num)
         [] IsBool(v) -> IF v.bool THEN <<"t", "r", "u", "e">> ELSE <<"f", "a", "l", "s", "e">>
         [] v = Null -> <<"n", "u", "l", "l">>
         [] v = Undefined -> <<"u", "n", "d", "e", "f", "i", "n", "e", "d">>
         [] IsArr(v) -> Join(v.arr, 1)
         [] IsObj(v) -> ObjectObject

String(v) == Str(Chars(v))

---------------------------------------------------------------------------
(* Model text: a sequence of lexical pieces.  A piece is whitespace, a     *)
(* ``` fence, the word json, text that is no JSON, or the serialisation of *)
(* one JSON value.                                                         *)

WS == [tok |-> "ws"]
FENCE == [tok |-> "fence"]
JSONTAG == [tok |-> "json"]
JUNK == [tok |-> "junk"]
Doc(v) == [doc |-> v]

IsWsTok(t) == t = WS
IsDoc(t) == DOMAIN t = {"doc"}

SyntaxError == [syntaxError |-> TRUE]

\* JSON.parse(text): leading and trailing whitespace is allowed around exactly
\* one value; anything else is a SyntaxError
JSONParse(text) ==
    LET core == Trim(text, IsWsTok)
    IN IF Len(core) = 1 /\ IsDoc(core[1]) THEN core[1].doc ELSE SyntaxError

\* text.match(/^```(?:json)?\s*([\s\S]*?)```\s*$/) on a trimmed text: the
\* captured interior, or Undefined when the pattern does not match.  The
\* text is trimmed, so the closing fence is its last piece.
CodeBlockMatch(text) ==
    IF Len(text) >= 2 /\ text[1] = FENCE /\ text[Len(text)] = FENCE
    THEN LET afterTag == IF text[2] = JSONTAG THEN 3 ELSE 2
             rest == TrimLeft(SubSeq(text, afterTag, Len(text) - 1), IsWsTok)
         IN [match |-> rest]
    ELSE Undefined

\* lines 178-181 / 221-224: trim, strip an enclosing code fence, trim again
StripFence(raw) ==
    LET text == Trim(raw, IsWsTok)
        m == CodeBlockMatch(text)
    IN IF m # Undefined THEN Trim(m.match, IsWsTok) ELSE text

---------------------------------------------------------------------------
(* llm.js: the edit response normalizer *)

InvalidResponse == [throw |-> "Invalid LLM response"]
InvalidKitResponse == [throw |-> "Invalid LLM response for kit"]
Pending == [pending |-> TRUE]
Idle == [fn |-> "none"]

IsThrow(r) == DOMAIN r = {"throw"}
IsValue(r) == DOMAIN r = {"value"}

EmptyStr == Str(<<>>)
TEXT == Str(<<"t", "e", "x", "t">>)
URL == Str(<<"u", "r", "l">>)
IMAGE == Str(<<"i", "m", "a", "g", "e">>)

PayloadKeys ==
    {"new_text", "new_url", "new_link", "new_image_url", "new_attachment_id", "new_image"}

\* lines 130-139
hasEditPayload(item) == \E k \in PayloadKeys : NotNullish(Get(item, k))

\* lines 141-149
resolveIdPath(item, dictionary, image_slots) ==
    LET Matches(d) ==
            \/ StrictEq(Get(d, "path"), Get(item, "path"))
            \/ StrictEq(Get(d, "id"), Get(item, "id"))
        fromDict == Find(dictionary, Matches)
        fromSlots == Find(image_slots, Matches)
        source == IF Truthy(fromDict) THEN fromDict ELSE fromSlots
        \* source?.id : undefined when source is undefined
    IN [id |-> Coalesce(Get(item, "id"), Coalesce(Get(source, "id"), EmptyStr)),
        path |-> Coalesce(Get(item, "path"), Coalesce(Get(source, "path"), EmptyStr))]

\* edit_capabilities.includes(tag)
Includes(caps, tag) == \E i \in 1..Len(caps) : StrictEq(caps[i], tag)

\* if (cond && edit.k != null) out.k = edit.k
CopyIf(cond, out, edit, k) ==
    IF cond /\ NotNullish(Get(edit, k)) THEN Put(out, k, Get(edit, k)) ELSE out

\* a filter that gates nothing: every field of the edit passes
filterByCapabilities_NoGate(edit, edit_capabilities) == edit

\* lines 151-169: the filtered edit, or Null when no payload field survives
filterByCapabilities(edit, edit_capabilities) ==
    LET text == Includes(edit_capabilities, TEXT) /\ NotNullish(Get(edit, "new_text"))
        url == Includes(edit_capabilities, URL)
        image == Includes(edit_capabilities, IMAGE)
        o0 == Obj(("id" :> Get(edit, "id")) @@ ("path" :> Get(edit, "path")))
        o1 == CopyIf(text, o0, edit, "new_text")
        o2 == CopyIf(text, o1, edit, "field")
        o3 == CopyIf(text, o2, edit, "item_index")
        o4 == CopyIf(url, o3, edit, "new_url")
        o5 == CopyIf(url, o4, edit, "new_link")
        o6 == CopyIf(image, o5, edit, "new_image_url")
        o7 == CopyIf(image, o6, edit, "new_attachment_id")
        out == CopyIf(image, o7, edit, "new_image")
        hasPayload == \E k \in PayloadKeys : HasKey(out, k)
    IN IF hasPayload THEN out ELSE Null

\* line 195: the elements the first filter keeps
IsCandidate(item) ==
    /\ Truthy(item)
    /\ NotNullish(Get(item, "id")) \/ NotNullish(Get(item, "path"))
    /\ hasEditPayload(item)

\* lines 196-210: one element to its (capability-filtered) edit, or Null
toEdit(item, dictionary, slots, caps) ==
    LET r == resolveIdPath(item, dictionary, slots)
        e0 == Obj(("id" :> r.id) @@ ("path" :> r.path))
        hasText == NotNullish(Get(item, "new_text"))
        e1 == IF hasText THEN Put(e0, "new_text", String(Get(item, "new_text"))) ELSE e0
        e2 == CopyIf(hasText, e1, item, "field")
        e3 == CopyIf(hasText, e2, item, "item_index")
        e4 == CopyIf(TRUE, e3, item, "new_url")
        e5 == CopyIf(TRUE, e4, item, "new_link")
        e6 == CopyIf(TRUE, e5, item, "new_image_url")
        e7 == CopyIf(TRUE, e6, item, "new_attachment_id")
        edit == CopyIf(TRUE, e7, item, "new_image")
    IN filterByCapabilities(edit, caps)

\* a last filter that keeps every record
HasIdOrPath_KeepAll(e) == TRUE

\* line 212: e.id !== '' || e.path !== ''
HasIdOrPath(e) == ~StrictEq(Get(e, "id"), EmptyStr) \/ ~StrictEq(Get(e, "path"), EmptyStr)

\* line 189: Array.isArray(arr)
IsArrayShape(v) == IsArr(v)

\* lines 191-192: a non-array argument falls back to its default
SlotsOrDefault(image_slots) == IF IsArr(image_slots) THEN image_slots.arr ELSE <<>>
CapsOrDefault(edit_capabilities) ==
    IF IsArr(edit_capabilities) THEN edit_capabilities.arr ELSE <<TEXT>>

\* a normalizer that answers a wrong top-level shape with a best-effort empty array
parseEditsFromLLM_BestEffort(raw, dictionary, image_slots, edit_capabilities) ==
    IF JSONParse(StripFence(raw)) = SyntaxError THEN InvalidResponse
    ELSE [value |-> Arr(<<>>)]

\* a normalizer that returns the surviving records last element first
parseEditsFromLLM_Reversed(raw, dictionary, image_slots, edit_capabilities) ==
    LET arr == JSONParse(StripFence(raw))
        slots == SlotsOrDefault(image_slots)
        caps == CapsOrDefault(edit_capabilities)
        Edit(item) == toEdit(item, dictionary.arr, slots, caps)
        NotNull(e) == e # Null
        out == SelectSeq(SelectSeq(Map(SelectSeq(arr.arr, IsCandidate), Edit), NotNull),
                         HasIdOrPath)
    IN IF arr = SyntaxError THEN InvalidResponse
       ELSE IF ~IsArrayShape(arr) THEN InvalidResponse
       ELSE [value |-> Arr([i \in 1..Len(out) |-> out[Len(out) + 1 - i]])]

\* lines 177-213.  dictionary is an array (the handler checks it); image_slots and
\* edit_capabilities are any value, Undefined standing for an omitted argument.
parseEditsFromLLM(raw, dictionary, image_slots, edit_capabilities) ==
    LET arr == JSONParse(StripFence(raw))
        slots == SlotsOrDefault(image_slots)
        caps == CapsOrDefault(edit_capabilities)
        Edit(item) == toEdit(item, dictionary.arr, slots, caps)
        NotNull(e) == e # Null
    IN IF arr = SyntaxError THEN InvalidResponse
       ELSE IF ~IsArrayShape(arr) THEN InvalidResponse
       ELSE [value |->
                Arr(SelectSeq(SelectSeq(Map(SelectSeq(arr.arr, IsCandidate), Edit),
                                        NotNull),
                              HasIdOrPath))]

---------------------------------------------------------------------------
(* Inputs of the normalizer checks *)

MaxArr == 2

A == Str(<<"a">>)
B == Str(<<"b">>)
Z == Str(<<"z">>)
S == Str(<<"s">>)
PathA == Str(<<"/", "a">>)
PathB == Str(<<"/", "b">>)
PathS == Str(<<"/", "s">>)
Hi == Str(<<"H", "i">>)
U == Str(<<"u">>)
F == Str(<<"f">>)

\* {url, is_external} / {url, id}: the object payloads new_link and new_image
LinkObj == Obj(("url" :> U) @@ ("is_external" :> Bool(TRUE)))
ImageObj == Obj(("url" :> U) @@ ("id" :> Num(5)))

\* the id / path halves an element of the model's array may carry
ItemAddresses ==
    { "id" :> A,
      "path" :> PathA,
      ("id" :> A) @@ ("path" :> PathB),
      EmptyFn,
      "id" :> EmptyStr,
      ("id" :> Null) @@ ("path" :> PathS),
      "id" :> Num(0),
      "id" :> Z }

\* the payload fields it may carry
ItemPayloads ==
    { EmptyFn,
      "new_text" :> Hi,
      ("new_text" :> Num(7)) @@ ("field" :> F) @@ ("item_index" :> Num(0)),
      "new_url" :> U,
      ("new_text" :> Null) @@ ("new_link" :> LinkObj),
      ("new_image_url" :> U) @@ ("new_attachment_id" :> Num(5)),
      "new_image" :> ImageObj,
      "field" :> F,
      ("new_text" :> Hi) @@ ("new_url" :> U) @@ ("new_image" :> ImageObj) }

\* elements of the model's array: every address with a text payload, every
\* payload with an id, and values that are no objects
AddressItems == {Obj(a @@ ("new_text" :> Hi)) : a \in ItemAddresses}
PayloadItems == {Obj(("id" :> A) @@ p) : p \in ItemPayloads}
Items == AddressItems \cup PayloadItems \cup {Null, Num(5)}

SeqsUpTo(X, n) == UNION {[1..k -> X] : k \in 0..n}

Entry(id, path) == Obj(("id" :> id) @@ ("path" :> path))

Dictionaries ==
    { Arr(<<>>),
      Arr(<<Entry(A, PathA)>>),
      Arr(<<Obj("id" :> B), Entry(A, PathA)>>),
      Arr(<<Entry(A, PathA), Entry(A, PathB)>>) }

SlotLists ==
    { Arr(<<>>), Arr(<<Entry(S, PathS)>>), Undefined }

CapLists ==
    { Arr(<<TEXT>>), Arr(<<URL>>), Arr(<<IMAGE>>), Arr(<<TEXT, URL, IMAGE>>),
      Arr(<<>>), Arr(<<Str(<<"x">>)>>), Undefined, URL }

\* ways the model wraps its JSON: bare, padded, fenced (with and without the
\* json tag), and fences that do not enclose the whole text
Wrappings(doc) ==
    { <<doc>>,
      <<WS, doc, WS>>,
      <<FENCE, JSONTAG, WS, doc, WS, FENCE>>,
      <<WS, FENCE, doc, FENCE, WS>>,
      <<FENCE, JSONTAG, doc>>,
      <<FENCE, doc, FENCE, JUNK>>,
      <<FENCE, JUNK, WS, doc, FENCE>>,
      <<doc, doc>> }

TopLevelDocs ==
    { Doc(Arr(<<>>)), Doc(Arr(<<Obj(("id" :> A) @@ ("new_text" :> Hi))>>)),
      Doc(Num(42)), Doc(Str(<<"x">>)), Doc(Null), Doc(Bool(TRUE)), Doc(Obj(EmptyFn)),
      Doc(Obj("edits" :> Arr(<<>>))), JUNK }

ShapeRaws == {<<>>, <<WS>>, <<FENCE, FENCE>>} \cup UNION {Wrappings(d) : d \in TopLevelDocs}

ArrayRaws(X) == {<<Doc(Arr(xs))>> : xs \in SeqsUpTo(X, MaxArr)}

EditCall(raw, d, s, c) ==
    [fn |-> "parseEditsFromLLM", raw |-> raw, dictionary |-> d, image_slots |-> s,
     edit_capabilities |-> c]

\* every array of payloads under every capability list, every array of
\* addresses under every dictionary and slot list, every array of any elements
\* and every wrapping of every top-level shape
EditCalls ==
    {EditCall(r, Arr(<<Entry(A, PathA)>>), Arr(<<>>), c) :
        r \in ArrayRaws(PayloadItems \cup {Num(5)}), c \in CapLists}
    \cup {EditCall(r, d, s, Arr(<<TEXT>>)) :
        r \in ArrayRaws(AddressItems \cup {Null}), d \in Dictionaries, s \in SlotLists}
    \cup {EditCall(r, Arr(<<Entry(A, PathA)>>), Arr(<<>>), Arr(<<TEXT, URL>>)) :
        r \in ArrayRaws(Items)}
    \cup {EditCall(r, Arr(<<Entry(A, PathA)>>), Arr(<<>>), c) : r \in ShapeRaws, c \in CapLists}

ServerIdle ==
    /\ secret = FALSE
    /\ requests = <<>>
    /\ heap = <<>>
    /\ inflight = EmptyFn
    /\ sent = EmptyFn
    /\ calls = EmptyFn
    /\ arrived = 0
    /\ view = <<>>
    /\ results = EmptyFn

InitEdits ==
    /\ call \in EditCalls
    /\ ret = Pending
    /\ ServerIdle

\* the call returns or throws
ParseEdits ==
    /\ call.fn = "parseEditsFromLLM"
    /\ ret = Pending
    /\ ret' = parseEditsFromLLM(call.raw, call.dictionary, call.image_slots,
                                call.edit_capabilities)
    /\ UNCHANGED <<call, serverVars>>

NextEdits == ParseEdits

SpecEdits == InitEdits /\ [][NextEdits]_vars

---------------------------------------------------------------------------
(* Properties of parseEditsFromLLM *)

IsEditsCall == call.fn = "parseEditsFromLLM"

\* what JSON.parse made of the fence-stripped, trimmed text
Parsed == JSONParse(StripFence(call.raw))

\* the array a successful call returned
Output == ret.value.arr

\* neither missing nor the empty string
NonEmpty(v) == NotNullish(v) /\ v # EmptyStr

HasPayloadField(e) == \E k \in PayloadKeys : HasKey(e, k) /\ NotNullish(Get(e, k))

\* C1: every record of the array parseEditsFromLLM returns has a non-empty id or
\* a non-empty path, and carries at least one payload field (new_text, new_url,
\* new_link, new_image_url, new_attachment_id or new_image).
C1_RecordsAddressedWithPayload ==
    (IsEditsCall /\ IsValue(ret)) =>
        \A i \in 1..Len(Output) :
            /\ IsObj(Output[i])
            /\ NonEmpty(Get(Output[i], "id")) \/ NonEmpty(Get(Output[i], "path"))
            /\ HasPayloadField(Output[i])

\* C1 witness: a call that returned records and discarded at least one candidate
\* element (one whose payload was gated out or whose id and path both resolved empty)
C1_Witness ==
    /\ IsEditsCall /\ IsValue(ret)
    /\ Len(Output) >= 1
    /\ Len(Output) < Cardinality({i \in 1..Len(Parsed.arr) : IsCandidate(Parsed.arr[i])})

\* the capability that gates each field
CapabilityOf(k) ==
    CASE k \in {"new_text", "field", "item_index"} -> TEXT
      [] k \in {"new_url", "new_link"} -> URL
      [] k \in {"new_image_url", "new_attachment_id", "new_image"} -> IMAGE

GatedKeys == PayloadKeys \cup {"field", "item_index"}

\* the allow-list the call asked for; a call that passes no list asks for text
Requested ==
    IF IsArr(call.edit_capabilities) THEN call.edit_capabilities.arr ELSE <<TEXT>>

Allowed(k) == \E i \in 1..Len(Requested) : Requested[i] = CapabilityOf(k)

\* the element carries a payload field its capability list lets through
HasAllowedPayload(item) ==
    \E k \in PayloadKeys : NotNullish(Get(item, k)) /\ Allowed(k)

\* C2: no record of the output carries a field whose capability is absent from
\* the requested allow-list, and an element whose payload fields are all gated
\* out is absent from the output rather than an error: the call returns, with at
\* most one record per element that has an allowed payload.
C2_OnlyAllowedFields ==
    (IsEditsCall /\ ret # Pending /\ Parsed # SyntaxError /\ IsArr(Parsed)) =>
        /\ IsValue(ret)
        /\ \A i \in 1..Len(Output) : \A k \in GatedKeys :
               HasKey(Output[i], k) => Allowed(k)
        /\ Len(Output) <=
               Cardinality({i \in 1..Len(Parsed.arr) : HasAllowedPayload(Parsed.arr[i])})

\* C2 witness: capabilities = ['text'], an element with new_url and no new_text
\* was dropped, and another element's record was returned
C2_Witness ==
    /\ IsEditsCall /\ IsValue(ret)
    /\ call.edit_capabilities = Arr(<<TEXT>>)
    /\ \E i \in 1..Len(Parsed.arr) :
           /\ NotNullish(Get(Parsed.arr[i], "new_url"))
           /\ ~NotNullish(Get(Parsed.arr[i], "new_text"))
    /\ Len(Output) = 1
    /\ Len(Parsed.arr) = 2

\* an element that is an object with an id or a path and a payload field
WellFormed(item) ==
    /\ IsObj(item)
    /\ NotNullish(Get(item, "id")) \/ NotNullish(Get(item, "path"))
    /\ \E k \in PayloadKeys : NotNullish(Get(item, k))

\* C3: when the fence-stripped, trimmed text is no valid JSON, or parses to a
\* value that is no array, the call throws 'Invalid LLM response' and returns no
\* array; when it parses to an array the call returns, and malformed elements
\* are dropped without error (at most one record per well-formed element).
C3_WrongShapeThrows ==
    (IsEditsCall /\ ret # Pending) =>
        IF Parsed = SyntaxError \/ ~IsArr(Parsed)
        THEN ret = InvalidResponse
        ELSE /\ IsValue(ret)
             /\ Len(Output) <=
                    Cardinality({i \in 1..Len(Parsed.arr) : WellFormed(Parsed.arr[i])})

\* C3 witness: a fenced text that is valid JSON of the wrong top-level shape
\* (an object, a number, a string, null) was rejected
C3_Witness ==
    /\ IsEditsCall
    /\ ret = InvalidResponse
    /\ Parsed # SyntaxError
    /\ call.raw[1] = FENCE

\* C13: the returned array is deduplicated: no two of its records address the
\* same slot (same id and path) with the same payload, even when the model
\* output repeats an element.
C13_Deduplicated ==
    (IsEditsCall /\ IsValue(ret)) =>
        \A i, j \in 1..Len(Output) : i # j => Output[i] # Output[j]

\* the record the call makes of one element of the parsed array, or Null
RecordOf(item) ==
    toEdit(item, call.dictionary.arr, SlotsOrDefault(call.image_slots), Requested)

\* the element passes all three filters
Survives(item) ==
    /\ IsCandidate(item)
    /\ RecordOf(item) # Null
    /\ HasIdOrPath(RecordOf(item))

\* the positions of the surviving elements in the parsed array
Survivors == {j \in 1..Len(Parsed.arr) : Survives(Parsed.arr[j])}

\* C14: the output holds exactly one record per surviving element, and the
\* records stand in the order of their elements in the parsed array: the record
\* of the k-th surviving element is the k-th record of the output.
C14_OrderPreserved ==
    (IsEditsCall /\ IsValue(ret)) =>
        /\ Len(Output) = Cardinality(Survivors)
        /\ \A j \in Survivors :
               Output[Cardinality({k \in Survivors : k <= j})] = RecordOf(Parsed.arr[j])

\* C14 witness: two elements survived with different records
C14_Witness ==
    /\ IsEditsCall /\ IsValue(ret)
    /\ Len(Output) = 2
    /\ Output[1] # Output[2]

---------------------------------------------------------------------------
(* resolveIdPath on its own *)

MaxDict == 2

\* candidates: id only, path only, both, and halves that are null or empty
ResolveItems ==
    { Obj("id" :> A), Obj("path" :> PathA), Obj(("id" :> A) @@ ("path" :> PathB)),
      Obj("id" :> Z), Obj(("id" :> Null) @@ ("path" :> PathA)), Obj("id" :> EmptyStr),
      Obj("path" :> PathS) }

\* dictionary entries, some without id or path, some with an empty or null half
DictEntries ==
    { Entry(A, PathA), Entry(A, PathB), Entry(B, PathA), Obj("id" :> B),
      Obj("path" :> PathB), Entry(EmptyStr, PathA), Entry(A, Null) }

SlotEntries == { Entry(S, PathS), Entry(A, PathS), Obj("id" :> S) }

ResolveCalls ==
    [fn : {"resolveIdPath"}, item : ResolveItems,
     dictionary : SeqsUpTo(DictEntries, MaxDict),
     image_slots : SeqsUpTo(SlotEntries, MaxDict)]

InitResolve ==
    /\ call \in ResolveCalls
    /\ ret = Pending
    /\ ServerIdle

ResolveIdPath ==
    /\ call.fn = "resolveIdPath"
    /\ ret = Pending
    /\ ret' = [value |-> resolveIdPath(call.item, call.dictionary, call.image_slots)]
    /\ UNCHANGED <<call, serverVars>>

NextResolve == ResolveIdPath

SpecResolve == InitResolve /\ [][NextResolve]_vars

\* the half `want` of the first entry, dictionary before slots, whose half
\* `have` equals the candidate's; the empty string when no entry matches
FirstMatch(item, have, want, dictionary, slots) ==
    LET Hits(xs) == {i \in 1..Len(xs) : StrictEq(Get(xs[i], have), Get(item, have))}
    IN IF Hits(dictionary) # {}
       THEN Coalesce(Get(dictionary[Min(Hits(dictionary))], want), EmptyStr)
       ELSE IF Hits(slots) # {}
       THEN Coalesce(Get(slots[Min(Hits(slots))], want), EmptyStr)
       ELSE EmptyStr

\* C5: resolveIdPath fills only the missing half: for a candidate with id and
\* no path the resolved path is the path of the first dictionary entry whose id
\* equals the candidate's id, else that of the first image slot whose id equals
\* it, else the empty string (symmetrically for path without id); the match is
\* on the supplied field only.
C5_FillsMissingHalfByFirstMatch ==
    (call.fn = "resolveIdPath" /\ IsValue(ret)) =>
        LET id == Get(call.item, "id")
            path == Get(call.item, "path")
        IN /\ NotNullish(id) => ret.value.id = id
           /\ NotNullish(path) => ret.value.path = path
           /\ (NotNullish(id) /\ ~NotNullish(path)) =>
                  ret.value.path =
                      FirstMatch(call.item, "id", "path", call.dictionary, call.image_slots)
           /\ (NotNullish(path) /\ ~NotNullish(id)) =>
                  ret.value.id =
                      FirstMatch(call.item, "path", "id", call.dictionary, call.image_slots)

---------------------------------------------------------------------------
(* llm.js: the kit patch normalizer *)

\* k.startsWith('typography_'), over the keys the model's objects use
TypographyKeys == {"typography_font_family", "typography_font_size",
                   "typography_font_weight", "typography_"}
StartsWithTypography(k) == k \in TypographyKeys

\* lines 237 and 247: the entries the first filter keeps
IsKitEntry(c) == Truthy(c) /\ TypeofObject(c) /\ NotNullish(Get(c, "_id"))

\* lines 238-242
toColor(c) ==
    Obj(("_id" :> String(Get(c, "_id")))
        @@ ("title" :> IF NotNullish(Get(c, "title")) THEN String(Get(c, "title"))
                       ELSE EmptyStr)
        @@ ("value" :> IF IsStr(Get(c, "value")) THEN Str(Trim(Get(c, "value").str, IsWsChar))
                       ELSE IF NotNullish(Get(c, "value")) THEN String(Get(c, "value"))
                       ELSE EmptyStr))

\* line 243
HasValue(c) == ~StrictEq(Get(c, "value"), EmptyStr)

\* a map callback that passes the model's entry on as it is
toTypography_CopyAll(t) == t

\* lines 248-257
toTypography(t) ==
    LET keys == {k \in DOMAIN t.obj :
                    /\ k # "_id" /\ k # "title"
                    /\ StartsWithTypography(k)
                    /\ NotNullish(t.obj[k])}
        o0 == Obj("_id" :> String(Get(t, "_id")))
        o1 == IF NotNullish(Get(t, "title")) THEN Put(o0, "title", String(Get(t, "title")))
              ELSE o0
    IN Obj([k \in keys |-> t.obj[k]] @@ o1.obj)

\* a last filter that keeps every entry
HasExtraKey_KeepAll(t) == TRUE

\* line 258: Object.keys(t).length > 1
HasExtraKey(t) == Cardinality(DOMAIN t.obj) > 1

\* Array.isArray(x) && x.length > 0
IsNonEmptyArray(x) == IsArr(x) /\ Len(x.arr) > 0

\* line 232: obj == null || typeof obj !== 'object'
IsKitShape(obj) == obj # Null /\ obj # Undefined /\ TypeofObject(obj)

\* lines 220-264
parseKitPatchFromLLM(raw) ==
    LET obj == JSONParse(StripFence(raw))
        colors == Get(obj, "colors")
        typography == Get(obj, "typography")
        settings == Get(obj, "settings")
        k0 == Obj(EmptyFn)
        k1 == IF IsNonEmptyArray(colors)
              THEN Put(k0, "colors",
                       Arr(SelectSeq(Map(SelectSeq(colors.arr, IsKitEntry), toColor),
                                     HasValue)))
              ELSE k0
        k2 == IF IsNonEmptyArray(typography)
              THEN Put(k1, "typography",
                       Arr(SelectSeq(Map(SelectSeq(typography.arr, IsKitEntry), toTypography),
                                     HasExtraKey)))
              ELSE k1
        k3 == IF NotNullish(settings) /\ TypeofObject(settings)
              THEN Put(k2, "settings", settings)
              ELSE k2
    IN IF obj = SyntaxError THEN InvalidKitResponse
       ELSE IF ~IsKitShape(obj) THEN InvalidKitResponse
       ELSE [value |-> k3]

---------------------------------------------------------------------------
(* Inputs of the kit normalizer checks *)

MaxKit == 2

Pid == Str(<<"p">>)
Hex == Str(<<"#", "1">>)
PaddedHex == Str(<<" ", "#", "1", " ">>)
Blank == Str(<<" ">>)
T == Str(<<"T">>)

ColorOf(v) == Obj(("_id" :> Pid) @@ ("value" :> v))

\* colour entries: every type of value, padded, blank and missing values,
\* missing and non-string ids, and values that are no objects
ColorEntries ==
    { ColorOf(PaddedHex), ColorOf(Hex), ColorOf(EmptyStr), ColorOf(Blank), ColorOf(Null),
      ColorOf(Num(5)), ColorOf(Bool(TRUE)), ColorOf(Arr(<<>>)), ColorOf(Arr(<<PaddedHex>>)),
      ColorOf(Obj(EmptyFn)),
      Obj("_id" :> Pid),
      Obj(("_id" :> Null) @@ ("value" :> Hex)),
      Obj("value" :> Hex),
      Obj(("_id" :> Num(3)) @@ ("title" :> T) @@ ("value" :> Hex) @@ ("evil" :> T)),
      Null, Num(1) }

FontSize == Obj(("unit" :> Str(<<"p", "x">>)) @@ ("size" :> Num(16)))

\* typography entries: with and without typography_* keys, title, null values,
\* keys that lack the prefix, and values that are no objects
TypographyEntries ==
    { Obj("_id" :> Pid),
      Obj(("_id" :> Pid) @@ ("title" :> T)),
      Obj(("_id" :> Pid) @@ ("typography_font_family" :> T)),
      Obj(("_id" :> Pid) @@ ("title" :> T) @@ ("typography_font_size" :> FontSize)
          @@ ("typography_font_weight" :> Null) @@ ("evil" :> T)),
      Obj(("_id" :> Pid) @@ ("typography_font_family" :> Null)),
      Obj(("_id" :> Null) @@ ("typography_font_family" :> T)),
      Obj(("_id" :> Num(3)) @@ ("font_family" :> T)),
      Obj(("_id" :> Pid) @@ ("typography_" :> Num(0))),
      Null }

SettingsValues == { Null, Obj(EmptyFn), Obj("evil" :> T), Arr(<<T>>), Num(1), T }

\* the objects the model may return: every colours array, every typography
\* array, every settings value beside keys the patch does not know
KitObjects ==
    {Obj("colors" :> Arr(cs)) : cs \in SeqsUpTo(ColorEntries, MaxKit)}
    \cup {Obj("typography" :> Arr(ts)) : ts \in SeqsUpTo(TypographyEntries, MaxKit)}
    \cup {Obj(("colors" :> Arr(<<c>>)) @@ ("typography" :> Arr(<<t>>))) :
             c \in ColorEntries, t \in TypographyEntries}
    \cup {Obj(("settings" :> v) @@ ("evil" :> T) @@ ("colors" :> c)) :
             v \in SettingsValues, c \in {T, Arr(<<>>), Arr(<<ColorOf(Hex)>>)}}
    \cup {Obj(EmptyFn)}

KitTopLevelDocs ==
    { Doc(Obj("colors" :> Arr(<<ColorOf(PaddedHex)>>))), Doc(Obj(EmptyFn)),
      Doc(Arr(<<>>)), Doc(Arr(<<ColorOf(Hex)>>)),
      Doc(Num(42)), Doc(Str(<<"x">>)), Doc(Null), Doc(Bool(TRUE)), JUNK }

KitRaws ==
    {<<Doc(o)>> : o \in KitObjects}
    \cup {<<>>, <<WS>>, <<FENCE, FENCE>>}
    \cup UNION {Wrappings(d) : d \in KitTopLevelDocs}

InitKit ==
    /\ call \in [fn : {"parseKitPatchFromLLM"}, raw : KitRaws]
    /\ ret = Pending
    /\ ServerIdle

\* the call returns or throws
ParseKit ==
    /\ call.fn = "parseKitPatchFromLLM"
    /\ ret = Pending
    /\ ret' = parseKitPatchFromLLM(call.raw)
    /\ UNCHANGED <<call, serverVars>>

NextKit == ParseKit

SpecKit == InitKit /\ [][NextKit]_vars

---------------------------------------------------------------------------
(* Properties of parseKitPatchFromLLM *)

IsKitCall == call.fn = "parseKitPatchFromLLM"

\* the kit patch a successful call returned
Patch == ret.value

\* C4: parseKitPatchFromLLM throws 'Invalid LLM response for kit' whenever the
\* parsed text is not a non-null, non-array object: malformed JSON, a number, a
\* string, null and an array (including []) are all rejected.
C4_NonObjectRejected ==
    (IsKitCall /\ ret # Pending) =>
        ((Parsed = SyntaxError \/ ~IsObj(Parsed)) => ret = InvalidKitResponse)

\* C9: every typography entry of the patch carries at least one key prefixed
\* typography_ besides its _id; an entry without one is discarded.
C9_TypographyEntriesHaveTypographyKey ==
    (IsKitCall /\ IsValue(ret) /\ HasKey(Patch, "typography")) =>
        \A i \in 1..Len(Patch.obj.typography.arr) :
            \E k \in DOMAIN Patch.obj.typography.arr[i].obj : StartsWithTypography(k)

\* C10: every colour entry of the patch has a value that is a non-empty string
\* with no leading or trailing whitespace, whatever type of value the model
\* supplied.
C10_ColourValuesTrimmedNonEmpty ==
    (IsKitCall /\ IsValue(ret) /\ HasKey(Patch, "colors")) =>
        \A i \in 1..Len(Patch.obj.colors.arr) :
            LET v == Get(Patch.obj.colors.arr[i], "value")
            IN /\ IsStr(v)
               /\ v.str # <<>>
               /\ ~IsWsChar(v.str[1])
               /\ ~IsWsChar(v.str[Len(v.str)])

PatchKeys == {"colors", "typography", "settings"}
ColorKeys == {"_id", "title", "value"}

\* C11: the patch has no top-level key other than colors, typography and
\* settings; every colour entry has exactly the keys _id, title and value; every
\* typography entry has _id, optionally title, and beyond these only keys
\* prefixed typography_: no other key of the model output reaches those levels.
C11_OnlyKnownKeys ==
    (IsKitCall /\ IsValue(ret)) =>
        /\ DOMAIN Patch.obj \subseteq PatchKeys
        /\ HasKey(Patch, "colors") =>
               \A i \in 1..Len(Patch.obj.colors.arr) :
                   DOMAIN Patch.obj.colors.arr[i].obj = ColorKeys
        /\ HasKey(Patch, "typography") =>
               \A i \in 1..Len(Patch.obj.typography.arr) :
                   /\ "_id" \in DOMAIN Patch.obj.typography.arr[i].obj
                   /\ \A k \in DOMAIN Patch.obj.typography.arr[i].obj :
                          k \in {"_id", "title"} \/ StartsWithTypography(k)

\* C11 witness: the model's typography entry carried a key that is none of
\* these, and the entry was returned without it
C11_Witness ==
    /\ IsKitCall /\ IsValue(ret)
    /\ IsObj(Parsed) /\ IsArr(Get(Parsed, "typography"))
    /\ \E i \in 1..Len(Parsed.obj.typography.arr) :
           /\ IsObj(Parsed.obj.typography.arr[i])
           /\ HasKey(Parsed.obj.typography.arr[i], "evil")
    /\ HasKey(Patch, "typography")
    /\ Len(Patch.obj.typography.arr) = Len(Parsed.obj.typography.arr)

\* a typography element that does not reach the patch: it fails the first
\* filter, or it has neither a title nor a typography_* key with a value
Dropped(t) ==
    IF ~IsKitEntry(t) THEN TRUE
    ELSE /\ ~NotNullish(Get(t, "title"))
         /\ \A k \in DOMAIN t.obj : StartsWithTypography(k) => ~NotNullish(t.obj[k])

\* the model's output is an object whose typography array is not empty and
\* loses every element
AllTypographyDropped ==
    /\ IsObj(Parsed)
    /\ IsNonEmptyArray(Get(Parsed, "typography"))
    /\ \A i \in 1..Len(Parsed.obj.typography.arr) : Dropped(Parsed.obj.typography.arr[i])

\* C12 (as claimed): when the typography array of the model's output is not
\* empty but every element of it is dropped, the patch has no typography key:
\* it is {} when nothing else is present.
C12_EmptyTypographyOmitted ==
    (IsKitCall /\ IsValue(ret) /\ AllTypographyDropped) =>
        /\ ~HasKey(Patch, "typography")
        /\ DOMAIN Parsed.obj = {"typography"} => Patch = Obj(EmptyFn)

\* C12 (amended): when the typography array of the model's output is not empty
\* but every element of it is dropped, the patch has a typography key that
\* holds the empty array: it is {typography: []} when nothing else is present.
C12_EmptyTypographyKept ==
    (IsKitCall /\ IsValue(ret) /\ AllTypographyDropped) =>
        /\ HasKey(Patch, "typography")
        /\ Patch.obj.typography = Arr(<<>>)
        /\ DOMAIN Parsed.obj = {"typography"} => Patch = Obj("typography" :> Arr(<<>>))

\* C12 witness: the output '{"typography":[{"_id":"p"}]}' was normalised
C12_Witness ==
    /\ IsKitCall /\ IsValue(ret)
    /\ Parsed = Obj("typography" :> Arr(<<Obj("_id" :> Pid)>>))

---------------------------------------------------------------------------
(* store: the in-memory audit buffer (addRequest / getRequests) *)

MAX_REQUESTS == 50

\* the `requests` array with every reference replaced by the record it points to
Records(refs) == [i \in 1..Len(refs) |-> heap[refs[i]]]

\* an addRequest that never evicts
addRequest_NoEvict(id, body, response, contextType) ==
    /\ heap' = Append(heap, [id |-> id, timestamp |-> Len(heap) + 1, body |-> body,
                             response |-> response, contextType |-> contextType])
    /\ requests' = <<Len(heap) + 1>> \o requests

\* a response payload of the form { error: message }
IsErrorPayload(payload) == IsObj(payload) /\ DOMAIN payload.obj = {"error"}

\* an addRequest that puts the record of a failed request in the place of the
\* newest record
addRequest_ErrorOverwrites(id, body, response, contextType) ==
    LET record == [id |-> id, timestamp |-> Len(heap) + 1, body |-> body,
                   response |-> response,
                   contextType |-> IF contextType = "kit" THEN "kit" ELSE "page"]
    IN IF IsErrorPayload(response) /\ Len(heap) > 0
       THEN /\ heap' = [heap EXCEPT ![Len(heap)] = record]
            /\ requests' = requests
       ELSE /\ heap' = Append(heap, record)
            /\ requests' = IF Len(requests) + 1 > MAX_REQUESTS
                           THEN <<Len(heap) + 1>> \o SubSeq(requests, 1, Len(requests) - 1)
                           ELSE <<Len(heap) + 1>> \o requests

\* addRequest(id, body, response, contextType): a new record object (its
\* reference is the next free index of heap; its timestamp, the clock reading
\* new Date() gives, is its creation order) is put at the front of `requests`,
\* and the last entry is popped when the array is longer than MAX_REQUESTS
addRequest(id, body, response, contextType) ==
    LET record == [id |-> id,
                   timestamp |-> Len(heap) + 1,
                   body |-> body,
                   response |-> response,
                   contextType |-> IF contextType = "kit" THEN "kit" ELSE "page"]
        ref == Len(heap) + 1
        unshifted == <<ref>> \o requests
    IN /\ heap' = Append(heap, record)
       /\ requests' = IF Len(unshifted) > MAX_REQUESTS
                      THEN SubSeq(unshifted, 1, Len(unshifted) - 1)
                      ELSE unshifted

\* getRequests(): [...requests], a new array of the same record objects
getRequests == requests

---------------------------------------------------------------------------
(* index.js: the auth middleware, the POST /edits handler, GET /api/requests *)

\* the first Warmup requests are served one at a time and are all alike (a page
\* request without a dictionary); up to MaxRequests more are arbitrary and
\* may be in flight together
Warmup == 49
MaxRequests == 2

KIT == Str(<<"k", "i", "t">>)

ErrorPayload(message) == Obj("error" :> [msg |-> message])

Unauthorized == ErrorPayload("Unauthorized")

KitBody == Obj(("context_type" :> KIT) @@ ("instruction" :> Hi)
               @@ ("kit_settings" :> Obj(EmptyFn)))
KitBlankBody == Obj(("context_type" :> KIT) @@ ("instruction" :> Blank))
PageBody == Obj(("dictionary" :> Arr(<<Entry(A, PathA)>>)) @@ ("instruction" :> Hi))
PageUrlBody == Obj(("dictionary" :> Arr(<<Entry(A, PathA)>>)) @@ ("instruction" :> Hi)
                   @@ ("image_slots" :> Arr(<<Entry(S, PathS)>>))
                   @@ ("edit_capabilities" :> Arr(<<URL, IMAGE>>)))
NoDictionaryBody == Obj("instruction" :> Hi)
PageBlankBody == Obj(("dictionary" :> Arr(<<Entry(A, PathA)>>)) @@ ("instruction" :> Blank))

\* req.body as express.json() leaves it: Undefined when the request had none
Bodies == {KitBody, KitBlankBody, PageBody, PageUrlBody, PageBlankBody, NoDictionaryBody,
           Undefined}

\* what the provider does with one generateContent call: it rejects with a
\* message (possibly the empty one), or answers with a text
ProviderOutcomes ==
    { [reject |-> "quota exceeded"],
      [reject |-> ""],
      [text |-> <<>>],
      [text |-> <<FENCE, JSONTAG, WS,
                  Doc(Arr(<<Obj(("path" :> PathA) @@ ("new_text" :> Hi)),
                            Obj(("id" :> S) @@ ("new_image_url" :> U))>>)),
                  WS, FENCE>>],
      [text |-> <<Doc(Obj("colors" :> Arr(<<ColorOf(PaddedHex)>>)))>>],
      [text |-> <<JUNK>>] }

\* lines 116-128: callGemini's result for one provider outcome; an empty text
\* is returned as '[]'
callGemini(outcome) ==
    IF "reject" \in DOMAIN outcome THEN [throw |-> outcome.reject]
    ELSE IF outcome.text = <<>> THEN [value |-> <<Doc(Arr(<<>>))>>]
    ELSE [value |-> outcome.text]

\* a check of the instruction that does not trim it
MissingInstruction_NoTrim(instruction) ==
    IF IsStr(instruction) THEN instruction.str = <<>> ELSE TRUE

\* typeof instruction !== 'string' || !instruction.trim()
MissingInstruction(instruction) ==
    IF IsStr(instruction) THEN Trim(instruction.str, IsWsChar) = <<>> ELSE TRUE

\* e.message || fallback
MessageOr(message, fallback) == IF message = "" THEN fallback ELSE message

Without(f, n) == [m \in DOMAIN f \ {n} |-> f[m]]

\* a handler that answers without recording the request
Respond_NoAudit(n, body, payload, contextType) ==
    /\ sent' = (n :> [by |-> "handler", payload |-> payload]) @@ sent
    /\ UNCHANGED <<heap, requests>>

\* a handler that records an empty response in place of the one it sends
Respond_AuditsBlank(n, body, payload, contextType) ==
    /\ addRequest(n, body, Obj(EmptyFn), contextType)
    /\ sent' = (n :> [by |-> "handler", payload |-> payload]) @@ sent

\* addRequest(requestId, body, payload, contextType); return res.status(200).json(payload)
Respond(n, body, payload, contextType) ==
    /\ addRequest(n, body, payload, contextType)
    /\ sent' = (n :> [by |-> "handler", payload |-> payload]) @@ sent

\* a request may arrive: during the warm-up only the uniform one, and only
\* when no other is in flight
MayArrive(body, keyOk) ==
    /\ arrived < Warmup + MaxRequests
    /\ arrived < Warmup => (body = NoDictionaryBody /\ keyOk /\ DOMAIN inflight = {})

\* auth.js lines 5-15 (mounted when SERVICE_SECRET is set): a request whose
\* X-Service-Key is wrong is answered 'Unauthorized' and never reaches the handler
RejectUnauthorized(body, keyOk) ==
    /\ MayArrive(body, keyOk)
    /\ secret /\ ~keyOk
    /\ arrived' = arrived + 1
    /\ sent' = (arrived' :> [by |-> "auth", payload |-> Unauthorized]) @@ sent
    /\ UNCHANGED <<secret, requests, heap, inflight, calls, view, results, pureVars>>

Authorized(keyOk) == ~secret \/ keyOk

\* const body = req.body || {}
BodyOrEmpty(body) == IF Truthy(body) THEN body ELSE Obj(EmptyFn)

IsKitRequest(body) == StrictEq(Get(BodyOrEmpty(body), "context_type"), KIT)

\* lines 29-38: a kit request without an instruction
KitInvalid(body, keyOk) ==
    /\ MayArrive(body, keyOk) /\ Authorized(keyOk)
    /\ IsKitRequest(body)
    /\ MissingInstruction(Get(BodyOrEmpty(body), "instruction"))
    /\ arrived' = arrived + 1
    /\ Respond(arrived', BodyOrEmpty(body), ErrorPayload("Missing instruction for kit edit"),
               "kit")
    /\ UNCHANGED <<secret, inflight, calls, view, results, pureVars>>

\* lines 29-46: a valid kit request builds its prompt, calls callGemini and
\* suspends at the await
KitCall(body, keyOk) ==
    /\ MayArrive(body, keyOk) /\ Authorized(keyOk)
    /\ IsKitRequest(body)
    /\ ~MissingInstruction(Get(BodyOrEmpty(body), "instruction"))
    /\ arrived' = arrived + 1
    /\ inflight' = (arrived' :> [branch |-> "kit", body |-> BodyOrEmpty(body)]) @@ inflight
    /\ calls' = (arrived' :> 1) @@ calls
    /\ UNCHANGED <<secret, requests, heap, sent, view, results, pureVars>>

\* lines 67-71: a page request without a dictionary array or an instruction
PageInvalid(body, keyOk) ==
    /\ MayArrive(body, keyOk) /\ Authorized(keyOk)
    /\ ~IsKitRequest(body)
    /\ \/ ~IsArr(Get(BodyOrEmpty(body), "dictionary"))
       \/ MissingInstruction(Get(BodyOrEmpty(body), "instruction"))
    /\ arrived' = arrived + 1
    /\ Respond(arrived', BodyOrEmpty(body), ErrorPayload("Missing dictionary or instruction"),
               "page")
    /\ UNCHANGED <<secret, inflight, calls, view, results, pureVars>>

\* lines 59-80: a valid page request normalises its slots and capabilities,
\* builds its prompt, calls callGemini and suspends at the await
PageCall(body, keyOk) ==
    /\ MayArrive(body, keyOk) /\ Authorized(keyOk)
    /\ ~IsKitRequest(body)
    /\ IsArr(Get(BodyOrEmpty(body), "dictionary"))
    /\ ~MissingInstruction(Get(BodyOrEmpty(body), "instruction"))
    /\ arrived' = arrived + 1
    /\ inflight' = (arrived' :> [branch |-> "page", body |-> BodyOrEmpty(body)]) @@ inflight
    /\ calls' = (arrived' :> 1) @@ calls
    /\ UNCHANGED <<secret, requests, heap, sent, view, results, pureVars>>

\* a kit handler that calls the model a second time when the first call failed
\* or its text was rejected
KitResume_Retry(n, outcome) ==
    /\ n \in DOMAIN inflight
    /\ inflight[n].branch = "kit"
    /\ LET raw == callGemini(outcome)
           kit_patch == IF IsThrow(raw) THEN raw ELSE parseKitPatchFromLLM(raw.value)
       IN IF IsThrow(kit_patch) /\ calls[n] < 2
          THEN /\ calls' = [calls EXCEPT ![n] = @ + 1]
               /\ UNCHANGED <<requests, heap, sent, inflight, results>>
          ELSE /\ IF IsThrow(kit_patch)
                  THEN Respond(n, inflight[n].body,
                               ErrorPayload(MessageOr(kit_patch.throw, "Kit LLM request failed")),
                               "kit")
                  ELSE Respond(n, inflight[n].body, Obj("kit_patch" :> kit_patch.value), "kit")
               /\ inflight' = Without(inflight, n)
               /\ results' = (n :> [branch |-> "kit", body |-> inflight[n].body,
                                     raw |-> raw]) @@ results
               /\ UNCHANGED calls
    /\ UNCHANGED <<secret, arrived, view, pureVars>>

\* lines 46-55: the kit handler resumes with callGemini's result
KitResume(n, outcome) ==
    /\ n \in DOMAIN inflight
    /\ inflight[n].branch = "kit"
    /\ LET raw == callGemini(outcome)
           kit_patch == IF IsThrow(raw) THEN raw ELSE parseKitPatchFromLLM(raw.value)
       IN IF IsThrow(kit_patch)
          THEN Respond(n, inflight[n].body,
                       ErrorPayload(MessageOr(kit_patch.throw, "Kit LLM request failed")), "kit")
          ELSE Respond(n, inflight[n].body, Obj("kit_patch" :> kit_patch.value), "kit")
    /\ inflight' = Without(inflight, n)
    /\ results' = (n :> [branch |-> inflight[n].branch, body |-> inflight[n].body,
                          raw |-> callGemini(outcome)]) @@ results
    /\ UNCHANGED <<secret, calls, arrived, view, pureVars>>

\* lines 72-73: imageSlots and capabilities as the handler normalises them
HandlerSlots(body) ==
    IF IsArr(Get(body, "image_slots")) THEN Get(body, "image_slots") ELSE Arr(<<>>)
HandlerCapabilities(body) ==
    IF IsArr(Get(body, "edit_capabilities")) THEN Get(body, "edit_capabilities")
    ELSE Arr(<<TEXT>>)

\* lines 80-91: the page handler resumes with callGemini's result
PageResume(n, outcome) ==
    /\ n \in DOMAIN inflight
    /\ inflight[n].branch = "page"
    /\ LET raw == callGemini(outcome)
           body == inflight[n].body
           edits == IF IsThrow(raw) THEN raw
                    ELSE parseEditsFromLLM(raw.value, Get(body, "dictionary"),
                                           HandlerSlots(body), HandlerCapabilities(body))
       IN IF IsThrow(edits)
          THEN Respond(n, body, ErrorPayload(MessageOr(edits.throw, "LLM request failed")),
                       "page")
          ELSE Respond(n, body, Obj("edits" :> edits.value), "page")
    /\ inflight' = Without(inflight, n)
    /\ results' = (n :> [branch |-> inflight[n].branch, body |-> inflight[n].body,
                          raw |-> callGemini(outcome)]) @@ results
    /\ UNCHANGED <<secret, calls, arrived, view, pureVars>>

Init ==
    /\ call = Idle
    /\ ret = Idle
    /\ secret \in BOOLEAN
    /\ requests = <<>>
    /\ heap = <<>>
    /\ inflight = EmptyFn
    /\ sent = EmptyFn
    /\ calls = EmptyFn
    /\ arrived = 0
    /\ view = <<>>
    /\ results = EmptyFn

Next ==
    \/ \E body \in Bodies, keyOk \in BOOLEAN :
          \/ RejectUnauthorized(body, keyOk)
          \/ KitInvalid(body, keyOk)
          \/ KitCall(body, keyOk)
          \/ PageInvalid(body, keyOk)
          \/ PageCall(body, keyOk)
    \/ \E n \in (Warmup + 1)..(Warmup + MaxRequests), outcome \in ProviderOutcomes :
          \/ KitResume(n, outcome)
          \/ PageResume(n, outcome)

Spec == Init /\ [][Next]_vars

\* the handler on its own: a server with an empty store whose requests are
\* numbered from Warmup + 1, so that every request is arbitrary and all of them
\* may be in flight together
InitHandler ==
    /\ call = Idle
    /\ ret = Idle
    /\ secret \in BOOLEAN
    /\ requests = <<>>
    /\ heap = <<>>
    /\ inflight = EmptyFn
    /\ sent = EmptyFn
    /\ calls = EmptyFn
    /\ arrived = Warmup
    /\ view = <<>>
    /\ results = EmptyFn

SpecHandler == InitHandler /\ [][Next]_vars

---------------------------------------------------------------------------
(* Properties of the server *)

\* how many AuditRecords request n has produced
AuditCount(n) == Cardinality({r \in 1..Len(heap) : heap[r].id = n})

\* C6: the audit buffer never holds more than 50 records, is ordered
\* newest-first by insertion and holds exactly the min(n, 50) most recently
\* inserted records, in every state a concurrently processed request or
\* getRequests can observe (heap lists the records in insertion order).
C6_BufferHoldsNewestFifty ==
    /\ Len(getRequests) <= MAX_REQUESTS
    /\ Len(requests) = IF Len(heap) < MAX_REQUESTS THEN Len(heap) ELSE MAX_REQUESTS
    /\ \A i \in 1..Len(requests) : requests[i] = Len(heap) - i + 1

\* C6 witness: more than 50 records were inserted, the oldest was evicted, and
\* the last two inserts came from requests that were in flight together and
\* finished in the opposite order of their arrival
C6_Witness ==
    /\ Len(heap) > MAX_REQUESTS
    /\ Len(requests) = MAX_REQUESTS
    /\ heap[Len(heap)].id < heap[Len(heap) - 1].id

\* C7 (as claimed): each inbound edit request produces exactly one AuditRecord,
\* created only once its result is known: none while its model call is
\* outstanding, exactly one once it is answered.
C7_EveryRequestAuditedOnce ==
    \A n \in 1..arrived :
        /\ n \in DOMAIN inflight => AuditCount(n) = 0
        /\ n \in DOMAIN sent => AuditCount(n) = 1

\* C7 (amended): each request that passes the auth middleware produces exactly
\* one AuditRecord, created only once its result is known (none while its model
\* call is outstanding, exactly one once the handler has answered); a request
\* the middleware rejects is answered 'Unauthorized' and produces none.
C7_HandledRequestAuditedOnce ==
    LET audited == {heap[r].id : r \in 1..Len(heap)}
    IN /\ Len(heap) = Cardinality(audited)
       /\ \A n \in 1..arrived :
              /\ (n \in DOMAIN inflight) # (n \in DOMAIN sent)
              /\ n \in DOMAIN inflight => n \notin audited
              /\ (n \in DOMAIN sent /\ sent[n].by = "handler") => n \in audited
              /\ (n \in DOMAIN sent /\ sent[n].by = "auth") =>
                     (n \notin audited /\ sent[n].payload = Unauthorized)

\* C7 witness: one request was answered after its model call and has its one
\* record, a validation failure has its one record without any model call, and
\* another request is still waiting for the model
C7_Witness ==
    /\ \E n \in DOMAIN sent : n \in DOMAIN calls /\ AuditCount(n) = 1
    /\ \E n \in DOMAIN sent : n \notin DOMAIN calls /\ AuditCount(n) = 1
    /\ DOMAIN inflight # {}

\* what the normalizer of the handler's branch makes of the text the model returned
Normalized(n) ==
    IF results[n].branch = "kit" THEN parseKitPatchFromLLM(results[n].raw.value)
    ELSE parseEditsFromLLM(results[n].raw.value, Get(results[n].body, "dictionary"),
                           HandlerSlots(results[n].body),
                           HandlerCapabilities(results[n].body))

\* the model call of request n failed, or the normalizer rejected its text
Failed(n) == IF IsThrow(results[n].raw) THEN TRUE ELSE IsThrow(Normalized(n))

\* C15: no retries: in the processing of one request callGemini is invoked at
\* most once; when the call fails or the normalizer rejects its text, the request
\* ends at once with an error result, without a second call and without a
\* success result.
C15_NoRetries ==
    /\ \A n \in DOMAIN calls : calls[n] = 1
    /\ DOMAIN inflight \subseteq DOMAIN calls
    /\ \A n \in DOMAIN results :
           /\ n \in DOMAIN calls
           /\ n \notin DOMAIN inflight
           /\ n \in DOMAIN sent
           /\ IsErrorPayload(sent[n].payload) <=> Failed(n)

\* C15 witness: one request's model call failed and another's text was rejected
\* by the normalizer; each made one call and was answered with an error
C15_Witness ==
    /\ \E n \in DOMAIN results :
           IsThrow(results[n].raw) /\ IsErrorPayload(sent[n].payload) /\ calls[n] = 1
    /\ \E n \in DOMAIN results :
           /\ ~IsThrow(results[n].raw) /\ Failed(n)
           /\ IsErrorPayload(sent[n].payload) /\ calls[n] = 1

\* the requests the handler has answered
Handled == {n \in DOMAIN sent : sent[n].by = "handler"}

\* the reference of the AuditRecord of request n
RecordRef(n) == CHOOSE r \in 1..Len(heap) : heap[r].id = n

\* the payload request n is answered with when nothing but its own body and
\* its own model result counts
OwnPayload(n) ==
    LET fallback == IF results[n].branch = "kit" THEN "Kit LLM request failed"
                    ELSE "LLM request failed"
        outcome == IF IsThrow(results[n].raw) THEN results[n].raw ELSE Normalized(n)
    IN IF IsThrow(outcome) THEN ErrorPayload(MessageOr(outcome.throw, fallback))
       ELSE IF results[n].branch = "kit" THEN Obj("kit_patch" :> outcome.value)
       ELSE Obj("edits" :> outcome.value)

\* C16: failures are request-scoped under concurrency: the result of a request
\* whose model call was in flight beside a failing one is what its own body and
\* its own model result give, and the audit buffer holds one well-formed record
\* for each completed request, failed ones included: none lost, duplicated or
\* overwritten (a record leaves the buffer only as the oldest of more than 50).
C16_FailuresRequestScoped ==
    LET handled == Handled
    IN /\ \A n \in DOMAIN results : sent[n].payload = OwnPayload(n)
       /\ Len(heap) = Cardinality(handled)
       /\ {heap[r].id : r \in 1..Len(heap)} = handled
       /\ \A r \in 1..Len(heap) :
              /\ heap[r].timestamp = r
              /\ heap[r].contextType \in {"kit", "page"}
              /\ IsObj(heap[r].body)
              /\ IsObj(heap[r].response)
              /\ heap[r].id \in DOMAIN results =>
                     /\ heap[r].body = results[heap[r].id].body
                     /\ heap[r].response = sent[heap[r].id].payload
              /\ r > Len(heap) - MAX_REQUESTS => requests[Len(heap) - r + 1] = r

\* C16 witness: request n failed while request m, which had arrived before it,
\* was still waiting for the model; m then completed with a success result
C16_Witness ==
    \E n, m \in DOMAIN results :
        /\ m < n
        /\ AuditCount(n) = 1 /\ AuditCount(m) = 1
        /\ RecordRef(n) < RecordRef(m)
        /\ Failed(n)
        /\ ~Failed(m)
        /\ ~IsErrorPayload(sent[m].payload)

\* the request body fails the shape checks: its instruction is no string or is
\* empty or all whitespace, or, for a page edit, its dictionary is no array
ShapeCheckFails(body) ==
    LET instruction == Get(body, "instruction")
        kit == Get(body, "context_type") = KIT
    IN \/ ~IsStr(instruction)
       \/ IsStr(instruction) /\ \A i \in 1..Len(instruction.str) : IsWsChar(instruction.str[i])
       \/ ~kit /\ ~IsArr(Get(body, "dictionary"))

\* C17: a request whose input fails the shape checks is answered with an error
\* result and never invokes the model: it is never waiting for the model, and
\* no callGemini call is ever counted for it.
C17_InvalidInputNeverCallsModel ==
    /\ \A n \in DOMAIN inflight : ~ShapeCheckFails(inflight[n].body)
    /\ \A r \in 1..Len(heap) :
           ShapeCheckFails(heap[r].body) =>
               /\ heap[r].id \notin DOMAIN calls
               /\ heap[r].id \notin DOMAIN results
               /\ heap[r].id \in DOMAIN sent
               /\ IsErrorPayload(sent[heap[r].id].payload)

\* C17 witness: a kit request with a whitespace-only instruction and a page
\* request with a dictionary but a blank instruction were both answered with an
\* error, without a model call
C17_Witness ==
    /\ \E r \in 1..Len(heap) :
           /\ heap[r].body = KitBlankBody
           /\ heap[r].id \notin DOMAIN calls
           /\ IsErrorPayload(sent[heap[r].id].payload)
    /\ \E r \in 1..Len(heap) :
           /\ heap[r].body = PageBlankBody
           /\ heap[r].id \notin DOMAIN calls
           /\ IsErrorPayload(sent[heap[r].id].payload)

\* C18: for every request the handler answered, the response stored in its
\* AuditRecord equals the payload sent back to the caller, and the record's
\* contextType is 'kit' exactly when the request took the kit branch and 'page'
\* otherwise.
C18_AuditMatchesResponse ==
    LET handled == Handled
    IN /\ handled \subseteq {heap[r].id : r \in 1..Len(heap)}
       /\ \A r \in 1..Len(heap) :
              /\ heap[r].id \in handled
              /\ heap[r].response = sent[heap[r].id].payload
              /\ heap[r].contextType = (IF IsKitRequest(heap[r].body) THEN "kit" ELSE "page")
              /\ heap[r].id \in DOMAIN results =>
                     heap[r].contextType = results[heap[r].id].branch

\* C18 witness: a kit request answered with a kit_patch and a page request
\* answered with edits both have their record
C18_Witness ==
    /\ \E r \in 1..Len(heap) :
           /\ heap[r].contextType = "kit"
           /\ HasKey(heap[r].response, "kit_patch")
           /\ HasKey(sent[heap[r].id].payload, "kit_patch")
    /\ \E r \in 1..Len(heap) :
           /\ heap[r].contextType = "page"
           /\ HasKey(heap[r].response, "edits")
           /\ Len(heap[r].response.obj.edits.arr) > 0

---------------------------------------------------------------------------
(* The store as its callers see it: addRequest and getRequests called         *)
(* directly, and what a caller may do with the array getRequests returned and *)
(* with the body object it passed to addRequest.                              *)

MaxStore == 2
MaxView == 2

Tampered == Str(<<"x">>)

StoreBodies == {PageBody, KitBody}
StoreResponses == {ErrorPayload("Missing dictionary or instruction"),
                   Obj("edits" :> Arr(<<>>))}

InitStore ==
    /\ call = Idle
    /\ ret = Idle
    /\ secret = FALSE
    /\ requests = <<>>
    /\ heap = <<>>
    /\ inflight = EmptyFn
    /\ sent = EmptyFn
    /\ calls = EmptyFn
    /\ arrived = 0
    /\ view = <<>>
    /\ results = EmptyFn

\* a caller records a request
StoreAdd(body, response, contextType) ==
    /\ Len(heap) < MaxStore
    /\ addRequest(Len(heap) + 1, body, response, contextType)
    /\ UNCHANGED <<secret, inflight, sent, calls, arrived, view, results, pureVars>>

\* lines 94-96, 136-138: a caller asks for the list and keeps what it got
ListRequests ==
    /\ view' = getRequests
    /\ UNCHANGED <<secret, requests, heap, inflight, sent, calls, arrived, results, pureVars>>

\* the caller adds an entry to the array it got
CallerPush ==
    /\ Len(view) >= 1 /\ Len(view) < MaxView
    /\ view' = Append(view, view[1])
    /\ UNCHANGED <<secret, requests, heap, inflight, sent, calls, arrived, results, pureVars>>

\* the caller removes the last entry of the array it got
CallerPop ==
    /\ Len(view) >= 1
    /\ view' = SubSeq(view, 1, Len(view) - 1)
    /\ UNCHANGED <<secret, requests, heap, inflight, sent, calls, arrived, results, pureVars>>

\* the caller reverses the array it got
CallerReverse ==
    /\ Len(view) >= 2
    /\ view' = [i \in 1..Len(view) |-> view[Len(view) + 1 - i]]
    /\ UNCHANGED <<secret, requests, heap, inflight, sent, calls, arrived, results, pureVars>>

\* the caller assigns to a field of a record in the array it got: the array
\* is a copy, the records in it are the stored objects themselves
CallerSetsField(i) ==
    /\ i \in 1..Len(view)
    /\ heap[view[i]].response # Tampered
    /\ heap' = [heap EXCEPT ![view[i]].response = Tampered]
    /\ UNCHANGED <<secret, requests, inflight, sent, calls, arrived, view, results, pureVars>>

\* the caller of addRequest changes the body object it passed in: line 123
\* stores the object itself, not a copy
CallerChangesBody(r) ==
    /\ r \in 1..Len(heap)
    /\ IsObj(heap[r].body)
    /\ Get(heap[r].body, "instruction") # Tampered
    /\ heap' = [heap EXCEPT ![r].body = Put(@, "instruction", Tampered)]
    /\ UNCHANGED <<secret, requests, inflight, sent, calls, arrived, view, results, pureVars>>

NextStore ==
    \/ \E body \in StoreBodies, response \in StoreResponses, contextType \in {"kit", "page"} :
          StoreAdd(body, response, contextType)
    \/ ListRequests
    \/ CallerPush
    \/ CallerPop
    \/ CallerReverse
    \/ \E i \in 1..MaxView : CallerSetsField(i)
    \/ \E r \in 1..MaxStore : CallerChangesBody(r)

SpecStore == InitStore /\ [][NextStore]_vars

\* C8: getRequests returns a defensive snapshot: nothing a caller does with the
\* returned value changes what a later getRequests returns, and a stored
\* AuditRecord never changes after addRequest created it, also not through the
\* body object that was passed in.
C8_SnapshotIsDefensive ==
    [][/\ \A r \in 1..Len(heap) : heap'[r] = heap[r]
       /\ requests' = requests => Records(getRequests)' = Records(getRequests)]_vars

====
